---- MODULE Spec2Model ----
(***************************************************************************)
(* Model of the Voyage reranker service (src/main.py): a FastAPI app with  *)
(* three endpoints, GET /, GET /health and POST /rerank.  The service is   *)
(* stateless across requests; the model follows one inbound request at a   *)
(* time from its arrival to the delivery of its response.  The /rerank     *)
(* handler suspends once, on the outbound POST to the provider, so it is   *)
(* two steps: rerank_call (lines 86-115) and rerank_resume (lines 116-177).*)
(*                                                                         *)
(* Encoding of Python / JSON values                                        *)
(*   Optional[str]   a string, None is the string "None"                   *)
(*   Optional[int]   a set: {} is None, {k} is the integer k               *)
(*   JSON value      [type |-> t, val |-> v], t in "dict", "list",         *)
(*                   "number", "str", "null"; a dict's val is a record     *)
(*   scores          integers, in tenths (0.9 is 9, the default 0.0 is 0)  *)
(***************************************************************************)
EXTENDS Integers, Sequences, FiniteSets, TLC

VARIABLES
    VOYAGE_API_KEY,  \* module-level configuration, read once at import
    pc,              \* "idle" | "awaiting" | "done": position of the request
    endpoint,        \* route of the request in hand
    req,             \* the RerankRequest in hand (POST /rerank)
    payload,         \* JSON body of the outbound POST, once built
    calls,           \* outbound provider calls made for the request in hand
    resp,            \* what the outbound POST produced
    response         \* what the service answers

vars == <<VOYAGE_API_KEY, pc, endpoint, req, payload, calls, resp, response>>

\* ------------------------------------------------------------------ bounds

MaxDocs == 2
MaxResults == 2

\* ------------------------------------------------------- Python-isms, JSON

None == "None"

\* truthiness of an Optional[str]: None and "" are falsy
Truthy(s) == s # None /\ s # ""

\* truthiness of an Optional[int]: None and 0 are falsy
TruthyInt(t) == t # {} /\ t # {0}

Value(t) == CHOOSE k \in t : TRUE

JObj(f) == [type |-> "dict", val |-> f]
JList(s) == [type |-> "list", val |-> s]
JNum(n) == [type |-> "number", val |-> n]
JStr(s) == [type |-> "str", val |-> s]
JNull == [type |-> "null", val |-> None]

SeqsUpTo(S, n) == UNION {[1..k -> S] : k \in 0..n}

\* --------------------------------------------------------- request models

Document ==
    { [id |-> None, content |-> "alpha", metadata |-> None],
      [id |-> "doc-b", content |-> "beta", metadata |-> "{lang: en}"] }

RerankRequest ==
    [ query : {"q"},
      documents : SeqsUpTo(Document, MaxDocs),
      model : {None, "", "rerank-2"},
      top_k : {{}} \cup {{k} : k \in -1..MaxDocs} ]

NoRequest == [query |-> "", documents |-> <<>>, model |-> None, top_k |-> {}]

\* ----------------------------------------------- the provider (environment)

\* httpx exceptions the outbound POST can raise; all derive from RequestError
HttpxErrors == {"ConnectTimeout", "ReadTimeout", "ConnectError", "ReadError"}

\* except httpx.TimeoutException
TimeoutException(exc) == exc \in {"ConnectTimeout", "ReadTimeout"}

\* except httpx.RequestError
RequestError(exc) == exc \in HttpxErrors

\* elements a provider may put in its "data" list
ResultElems ==
    { JObj([index |-> 0, relevance_score |-> 9]),
      JObj([index |-> 1, relevance_score |-> 5]),
      JObj([index |-> 1, score |-> 9]),
      JObj([index |-> -1, relevance_score |-> 7]),
      JObj([index |-> -(MaxDocs + 1), relevance_score |-> 3]),
      JObj([index |-> MaxDocs, relevance_score |-> 2]),
      JObj([relevance_score |-> 4]),
      JObj([index |-> 0]),
      JNum(9),
      JNum(1) }

\* JSON documents a provider may answer with
JsonBodies ==
    { JObj([data |-> JList(s)]) : s \in SeqsUpTo(ResultElems, MaxResults) }
    \cup { JObj([data |-> JNull]),
           JObj([foo |-> JStr("bar")]),
           JObj([scores |-> JList(<<JNum(1), JNum(9)>>)]),
           JObj([detail |-> JStr("invalid model")]),
           JList(<<JNum(9), JNum(1)>>),
           JStr("ok") }

\* an HTTP body: its text, and the JSON value the text denotes, if it parses
Bodies ==
    { [text |-> "<json>", parsed |-> {j}] : j \in JsonBodies }
    \cup { [text |-> "<html>Bad Gateway</html>", parsed |-> {}] }

ErrorBodies ==
    { [text |-> "<json>", parsed |-> {JObj([detail |-> JStr("invalid model")])}],
      [text |-> "<html>Bad Gateway</html>", parsed |-> {}] }

StatusCodes == {201, 401, 500, 504}

ProviderOutcomes ==
    { [kind |-> "exception", exc |-> e] : e \in HttpxErrors }
    \cup { [kind |-> "response", status_code |-> 200, body |-> b] : b \in Bodies }
    \cup { [kind |-> "response", status_code |-> s, body |-> b] :
             s \in StatusCodes, b \in ErrorBodies }

NoResp == [kind |-> "none"]

\* ------------------------------------------------------ framework responses

HTTPException(status_code, detail) ==
    [status_code |-> status_code, detail |-> detail]

\* an exception no handler catches: the server answers 500
InternalServerError == [status_code |-> 500, text |-> "Internal Server Error"]

OK(body) == [status_code |-> 200, body |-> body]

NoResponse == [status_code |-> 0]

\* response_model=RerankResponse: voyage_raw must be a dict, ranked a list of
\* dicts; a return value that does not validate is a server error
RerankResponse(output) ==
    IF output.voyage_raw.type = "dict"
    THEN OK(output)
    ELSE InternalServerError

\* ------------------------------------------------------------ GET /, /health

root ==
    [ status |-> "voyage-reranker is running",
      service |-> "Voyage AI Reranker",
      endpoints |-> [health |-> "/health", rerank |-> "/rerank (POST)"],
      api_key_configured |-> Truthy(VOYAGE_API_KEY) ]

\* mutant of health_status: the degraded branch is lost
health_status_AlwaysHealthy ==
    [ status |-> "healthy",
      service |-> "voyage-reranker",
      api_key_configured |-> Truthy(VOYAGE_API_KEY) ]

health_status ==
    IF ~Truthy(VOYAGE_API_KEY)
    THEN [ status |-> "degraded",
           service |-> "voyage-reranker",
           api_key_configured |-> Truthy(VOYAGE_API_KEY),
           warning |-> "API key not configured" ]
    ELSE [ status |-> "healthy",
           service |-> "voyage-reranker",
           api_key_configured |-> Truthy(VOYAGE_API_KEY) ]

\* ------------------------------------------------- POST /rerank, before await

NoKeyDetail ==
    JStr("Voyage API key not configured on server. Set VOYAGE_API_KEY environment variable.")

NoDocumentsDetail == JStr("No documents provided for reranking")

\* mutant of EarlyReturn: the empty-documents check is lost
EarlyReturn_NoDocumentsCheck(r) ==
    IF ~Truthy(VOYAGE_API_KEY)
    THEN {HTTPException(500, NoKeyDetail)}
    ELSE {}

\* the handler's two guards, in the code's order: the set holds the
\* HTTPException raised before any payload is built, and is empty when none is
EarlyReturn(r) ==
    IF ~Truthy(VOYAGE_API_KEY)
    THEN {HTTPException(500, NoKeyDetail)}
    ELSE IF r.documents = <<>>
         THEN {HTTPException(400, NoDocumentsDetail)}
         ELSE {}

\* payload = {...}; if req.top_k: payload["top_k"] = req.top_k
Payload(r) ==
    LET base == [ query |-> r.query,
                  documents |-> [i \in 1..Len(r.documents) |-> r.documents[i].content],
                  model |-> IF Truthy(r.model) THEN r.model ELSE "rerank-1" ]
    IN  IF TruthyInt(r.top_k)
        THEN base @@ [top_k |-> Value(r.top_k)]
        ELSE base

NoPayload == [query |-> "", documents |-> <<>>, model |-> None]

\* -------------------------------------------------- POST /rerank, after await

TimeoutDetail == JStr("Timeout contacting Voyage API")

TransportDetail(exc) == JObj([message |-> "Error contacting Voyage API", error |-> exc])

\* mutant of TransportFailure: the TimeoutException clause is lost
TransportFailure_NoTimeoutClause(exc) ==
    HTTPException(502, TransportDetail(exc))

\* except httpx.TimeoutException / except httpx.RequestError, in that order
TransportFailure(exc) ==
    IF TimeoutException(exc)
    THEN HTTPException(504, TimeoutDetail)
    ELSE IF RequestError(exc)
         THEN HTTPException(502, TransportDetail(exc))
         ELSE InternalServerError

\* mutant of UpstreamError: the body is always forwarded as raw text
UpstreamError_TextOnly(o) ==
    HTTPException(o.status_code,
                  JObj([ voyage_error |-> JStr(o.body.text),
                         message |-> "Voyage API returned an error" ]))

\* if resp.status_code != 200: err = resp.json(), else resp.text; raise
UpstreamError(o) ==
    LET err == IF o.body.parsed # {}
               THEN Value(o.body.parsed)
               ELSE JStr(o.body.text)
    IN  HTTPException(o.status_code,
                      JObj([ voyage_error |-> err,
                             message |-> "Voyage API returned an error" ]))

InvalidResponseDetail == JStr("Invalid response from Voyage API")

\* Python list indexing: 0-based, negative indices count from the end
PyIndex(i, n) == IF i >= 0 THEN i + 1 ELSE n + i + 1

Raised == [raised |-> TRUE, ranked |-> <<>>]

\* for result in results: ... ranked.append({...}); `raised` is set when an
\* iteration raises (result.get on a non-dict, documents[doc_index] out of
\* range)
RECURSIVE MapResults(_, _, _)
MapResults(results, documents, ranked) ==
    IF results = <<>>
    THEN [raised |-> FALSE, ranked |-> ranked]
    ELSE LET result == Head(results) IN
         IF result.type # "dict"
         THEN Raised
         ELSE LET d == result.val
                  has_index == "index" \in DOMAIN d
                  relevance_score ==
                      IF "relevance_score" \in DOMAIN d THEN d.relevance_score ELSE 0
              IN  IF has_index /\ d.index < Len(documents)
                  THEN IF d.index < -Len(documents)
                       THEN Raised
                       ELSE LET original_doc == documents[PyIndex(d.index, Len(documents))]
                            IN  MapResults(Tail(results), documents,
                                    Append(ranked,
                                        [ id |-> original_doc.id,
                                          content |-> original_doc.content,
                                          metadata |-> original_doc.metadata,
                                          relevance_score |-> relevance_score,
                                          index |-> d.index ]))
                  ELSE MapResults(Tail(results), documents, ranked)

\* the else branch: one unscored entry per input document
Fallback(documents) ==
    [ i \in 1..Len(documents) |->
        [ id |-> documents[i].id,
          content |-> documents[i].content,
          metadata |-> documents[i].metadata ] ]

\* output = {"voyage_raw": data, "ranked": [...]}; return output
Normalize(r, data) ==
    IF data.type = "dict" /\ "data" \in DOMAIN data.val
    THEN LET results == data.val.data IN
         IF results.type # "list"
         THEN InternalServerError
         ELSE LET m == MapResults(results.val, r.documents, <<>>) IN
              IF m.raised
              THEN InternalServerError
              ELSE RerankResponse([voyage_raw |-> data, ranked |-> m.ranked])
    ELSE RerankResponse([voyage_raw |-> data, ranked |-> Fallback(r.documents)])

\* everything the handler does once the outbound POST has produced `o`
AfterCall(r, o) ==
    IF o.kind = "exception"
    THEN TransportFailure(o.exc)
    ELSE IF o.status_code # 200
         THEN UpstreamError(o)
         ELSE IF o.body.parsed = {}
              THEN HTTPException(502, InvalidResponseDetail)
              ELSE Normalize(r, Value(o.body.parsed))

\* ------------------------------------------------------------------ actions

Init ==
    /\ VOYAGE_API_KEY \in {None, "", "pa-secret"}
    /\ pc = "idle"
    /\ endpoint = "none"
    /\ req = NoRequest
    /\ payload = NoPayload
    /\ calls = 0
    /\ resp = NoResp
    /\ response = NoResponse

Root ==
    /\ pc = "idle"
    /\ endpoint' = "/"
    /\ response' = OK(root)
    /\ pc' = "done"
    /\ UNCHANGED <<VOYAGE_API_KEY, req, payload, calls, resp>>

Health ==
    /\ pc = "idle"
    /\ endpoint' = "/health"
    /\ response' = OK(health_status)
    /\ pc' = "done"
    /\ UNCHANGED <<VOYAGE_API_KEY, req, payload, calls, resp>>

\* POST /rerank up to the await on client.post
rerank_call ==
    /\ pc = "idle"
    /\ \E r \in RerankRequest :
         /\ endpoint' = "/rerank"
         /\ req' = r
         /\ IF EarlyReturn(r) # {}
            THEN /\ response' = Value(EarlyReturn(r))
                 /\ pc' = "done"
                 /\ UNCHANGED <<payload, calls>>
            ELSE /\ payload' = Payload(r)
                 /\ calls' = calls + 1
                 /\ pc' = "awaiting"
                 /\ UNCHANGED response
    /\ UNCHANGED <<VOYAGE_API_KEY, resp>>

\* POST /rerank from the completion of client.post to the return
rerank_resume ==
    /\ pc = "awaiting"
    /\ \E o \in ProviderOutcomes :
         /\ resp' = o
         /\ response' = AfterCall(req, o)
    /\ pc' = "done"
    /\ UNCHANGED <<VOYAGE_API_KEY, endpoint, req, payload, calls>>

\* the response is sent; everything request-scoped is discarded
Deliver ==
    /\ pc = "done"
    /\ pc' = "idle"
    /\ endpoint' = "none"
    /\ req' = NoRequest
    /\ payload' = NoPayload
    /\ calls' = 0
    /\ resp' = NoResp
    /\ response' = NoResponse
    /\ UNCHANGED VOYAGE_API_KEY

Next == Root \/ Health \/ rerank_call \/ rerank_resume \/ Deliver

Spec == Init /\ [][Next]_vars

\* --------------------------------------------------- vocabulary of the claims

\* a /rerank request has been answered and the answer not yet delivered
Answered == pc = "done" /\ endpoint = "/rerank"

\* a provider credential is configured
KeyConfigured == VOYAGE_API_KEY \notin {None, ""}

\* the provider answered 200 with a body that parses as JSON
Got200Json ==
    /\ resp.kind = "response"
    /\ resp.status_code = 200
    /\ resp.body.parsed # {}

ProviderJson == Value(resp.body.parsed)

\* the service answered 200 with a normalized response
Returned200 == response.status_code = 200 /\ "body" \in DOMAIN response

\* the candidate result fields the specification names
CandidateKeys == {"scores", "results", "ranked", "data"}

IsNumberList(v, n) ==
    /\ v.type = "list"
    /\ Len(v.val) = n
    /\ \A i \in 1..n : v.val[i].type = "number"

\* a candidate field holds one plain number per input document
NumericScores(dat, n) ==
    /\ dat.type = "dict"
    /\ \E k \in CandidateKeys \cap DOMAIN dat.val : IsNumberList(dat.val[k], n)

\* the body has no recognized shape
Unrecognized(dat) ==
    \/ dat.type # "dict"
    \/ CandidateKeys \cap DOMAIN dat.val = {}

\* the body's "data" field is a list of objects
ObjectResults(dat) ==
    /\ dat.type = "dict"
    /\ "data" \in DOMAIN dat.val
    /\ dat.val.data.type = "list"
    /\ \A j \in 1..Len(dat.val.data.val) : dat.val.data.val[j].type = "dict"

\* ... a non-empty one, each object exposing an index and a score
IndexedScored(dat) ==
    /\ ObjectResults(dat)
    /\ dat.val.data.val # <<>>
    /\ \A j \in 1..Len(dat.val.data.val) :
         /\ "index" \in DOMAIN dat.val.data.val[j].val
         /\ {"relevance_score", "score"} \cap DOMAIN dat.val.data.val[j].val # {}

\* ... with indices that are in range and pairwise distinct
DistinctInRange(dat, n) ==
    /\ \A j \in 1..Len(dat.val.data.val) :
         dat.val.data.val[j].val.index \in 0..(n - 1)
    /\ \A j, k \in 1..Len(dat.val.data.val) :
         j # k => dat.val.data.val[j].val.index # dat.val.data.val[k].val.index

\* the score a provider result object carries
ProviderScore(d) ==
    IF "relevance_score" \in DOMAIN d THEN d.relevance_score ELSE d.score

\* the score of a ranked entry: {} when the entry carries none
Score(e) == IF "relevance_score" \in DOMAIN e THEN {e.relevance_score} ELSE {}

StrictlyDescending(ranked) ==
    /\ \A i \in 1..Len(ranked) : Score(ranked[i]) # {}
    /\ \A i \in 1..(Len(ranked) - 1) :
         Value(Score(ranked[i])) > Value(Score(ranked[i + 1]))

Min(a, b) == IF a < b THEN a ELSE b

PositiveTopK == req.top_k # {} /\ Value(req.top_k) > 0

\* ------------------------------------------------------------------- claims

\* C1: for a request with non-empty documents and a configured credential,
\* when the provider answers 200 with a candidate field holding one plain
\* number per document, the answer is 200, ranked is sorted strictly
\* descending by score and its length is min(len(documents), top_k) when a
\* positive top_k is given, else len(documents).
C1_NumericScoresSortedAndCapped ==
    (Answered /\ Got200Json /\ NumericScores(ProviderJson, Len(req.documents)))
        => /\ Returned200
           /\ StrictlyDescending(response.body.ranked)
           /\ Len(response.body.ranked) =
                IF PositiveTopK
                THEN Min(Len(req.documents), Value(req.top_k))
                ELSE Len(req.documents)

\* C2: for a provider 200 body with no recognized shape (an object without
\* any result field, or a body that is not an object) the answer is 200,
\* ranked holds one entry per input document, in input order, each without a
\* score, and the raw field equals the provider body.
C2_UnrecognizedShapeFallsBack ==
    (Answered /\ Got200Json /\ Unrecognized(ProviderJson))
        => /\ Returned200
           /\ response.body.voyage_raw = ProviderJson
           /\ Len(response.body.ranked) = Len(req.documents)
           /\ \A i \in 1..Len(req.documents) :
                /\ response.body.ranked[i].id = req.documents[i].id
                /\ response.body.ranked[i].content = req.documents[i].content
                /\ response.body.ranked[i].metadata = req.documents[i].metadata
                /\ Score(response.body.ranked[i]) = {}

\* C3 as stated: a request with an empty documents list gets a 400-class
\* failure and makes no outbound call, in every configuration.
C3_EmptyDocumentsAlways400 ==
    (Answered /\ req.documents = <<>>)
        => /\ response.status_code \in 400..499
           /\ calls = 0

\* C3 as amended: a request with an empty documents list makes no outbound
\* call in any configuration; it is answered 400 when a credential is
\* configured and 500 (missing credential) when none is.
C3_EmptyDocumentsNoCall ==
    (Answered /\ req.documents = <<>>)
        => /\ calls = 0
           /\ resp = NoResp
           /\ KeyConfigured => response.status_code = 400
           /\ ~KeyConfigured => response.status_code = 500

C3_Witness ==
    /\ Answered
    /\ req.documents = <<>>
    /\ KeyConfigured
    /\ response.status_code = 400

\* C4: when the provider's 200 body holds a result list of objects each
\* exposing an index and a score, every entry whose index is in range yields
\* a ranked entry carrying the id, content and metadata of the document at
\* that index, the provider's score for the entry and that index.
C4_IndexedEntriesMapped ==
    (Answered /\ Got200Json /\ IndexedScored(ProviderJson))
        => \A j \in 1..Len(ProviderJson.val.data.val) :
             LET d == ProviderJson.val.data.val[j].val IN
             (d.index >= 0 /\ d.index < Len(req.documents))
                 => /\ Returned200
                    /\ \E i \in 1..Len(response.body.ranked) :
                         response.body.ranked[i] =
                            [ id |-> req.documents[d.index + 1].id,
                              content |-> req.documents[d.index + 1].content,
                              metadata |-> req.documents[d.index + 1].metadata,
                              relevance_score |-> ProviderScore(d),
                              index |-> d.index ]

\* C5: in the index-based branch a result whose index lies outside
\* [0, len(documents)), negative indices included, is dropped and is not
\* fatal: the answer is 200 and every ranked entry has an index i with
\* 0 <= i < len(documents) and the content of documents[i].
C5_OutOfRangeIndicesDropped ==
    (Answered /\ Got200Json /\ ObjectResults(ProviderJson))
        => /\ Returned200
           /\ \A i \in 1..Len(response.body.ranked) :
                LET e == response.body.ranked[i] IN
                /\ e.index >= 0
                /\ e.index < Len(req.documents)
                /\ e.content = req.documents[e.index + 1].content

\* C6: a timeout of the outbound call is answered 504 with the timeout
\* detail, every other transport failure 502 without it; neither is ever
\* reported as the other.
C6_TimeoutDistinctFromTransport ==
    (Answered /\ resp.kind = "exception")
        => IF TimeoutException(resp.exc)
           THEN response = HTTPException(504, TimeoutDetail)
           ELSE /\ response.status_code = 502
                /\ "detail" \in DOMAIN response
                /\ response.detail # TimeoutDetail

C6_Witness ==
    /\ Answered
    /\ resp.kind = "exception"
    /\ TimeoutException(resp.exc)
    /\ response.status_code = 504

\* C7: a provider answer with a status other than 200 is answered with an
\* error carrying exactly the upstream status code and the upstream body
\* (the parsed JSON when it parses, else the raw text), with no normalized
\* body; a provider answer with status 200 is never turned into that error.
C7_UpstreamErrorForwarded ==
    (Answered /\ resp.kind = "response")
        => IF resp.status_code # 200
           THEN /\ response.status_code = resp.status_code
                /\ DOMAIN response = {"status_code", "detail"}
                /\ response.detail.type = "dict"
                /\ response.detail.val.voyage_error =
                     IF resp.body.parsed # {}
                     THEN Value(resp.body.parsed)
                     ELSE JStr(resp.body.text)
           ELSE ~ /\ "detail" \in DOMAIN response
                  /\ response.detail.type = "dict"
                  /\ "voyage_error" \in DOMAIN response.detail.val

C7_Witness ==
    /\ Answered
    /\ resp.kind = "response"
    /\ resp.status_code = 401
    /\ resp.body.parsed # {}
    /\ response.status_code = 401

\* C8: the payload sent to the provider has a top_k field if and only if the
\* request supplied a positive top_k; it always holds the query, the
\* documents' contents in input order, and the request's model, else the
\* default.
C8_PayloadCapOnlyWhenPositive ==
    (endpoint = "/rerank" /\ calls > 0)
        => /\ payload.query = req.query
           /\ Len(payload.documents) = Len(req.documents)
           /\ \A i \in 1..Len(req.documents) :
                payload.documents[i] = req.documents[i].content
           /\ payload.model = (IF Truthy(req.model) THEN req.model ELSE "rerank-1")
           /\ ("top_k" \in DOMAIN payload) <=> PositiveTopK

\* C9: with no API key configured every /rerank request is answered 500 and
\* no outbound call is made, and /health reports "degraded" with
\* api_key_configured false; with a key configured /health reports "healthy"
\* with api_key_configured true and /rerank never answers the
\* missing-credential 500.
C9_CredentialGatesService ==
    /\ ~KeyConfigured =>
         /\ calls = 0
         /\ Answered => response.status_code = 500
         /\ (pc = "done" /\ endpoint = "/health") =>
              /\ response.body.status = "degraded"
              /\ response.body.api_key_configured = FALSE
    /\ KeyConfigured =>
         /\ (pc = "done" /\ endpoint = "/health") =>
              /\ response.body.status = "healthy"
              /\ response.body.api_key_configured = TRUE
         /\ Answered => response # HTTPException(500, NoKeyDetail)

C9_Witness ==
    /\ ~KeyConfigured
    /\ Answered
    /\ req.documents # <<>>
    /\ response = HTTPException(500, NoKeyDetail)
    /\ calls = 0

\* C10: a successful answer to a request with a positive top_k = k whose
\* provider body was recognized as a scored result list (here even one whose
\* indices are all in range and distinct) holds at most k ranked entries,
\* whatever number of results the provider returned.
C10_RankedAtMostTopK ==
    (Answered /\ Returned200 /\ Got200Json /\ IndexedScored(ProviderJson)
        /\ DistinctInRange(ProviderJson, Len(req.documents)) /\ PositiveTopK)
        => Len(response.body.ranked) <= Value(req.top_k)

====
